---------------------------- MODULE Spec2Model ----------------------------
(***************************************************************************)
(* Model of the Pixel assistant widget of the Source Academy frontend:     *)
(*   - PixelChatBox   (chat panel: transcript, send / reset requests)      *)
(*   - MessageRenderer (code-fence splitter)                               *)
(*   - usePageContext / buildPageContext (page-context extractor) with     *)
(*     its helpers getEditorCode, truncate, stripHtml                      *)
(*   - PixelChatbot   (floating bubble that mounts the chat panel)         *)
(*                                                                         *)
(* A JavaScript string is a sequence of symbols.  A symbol is a single     *)
(* character ("a", "\n", ...; BACKTICK for the backtick) or, for the long *)
(* fixed sentences of the source, the whole sentence as one symbol.        *)
(* Indices into strings are the 0-based indices of the source;             *)
(* Slice(s, a, b) is s.slice(a, b).                                        *)
(* The optional values of the source (T | undefined, T | null) are         *)
(* None == << >> and Some(v) == << v >>.                                   *)
(***************************************************************************)
EXTENDS Integers, Sequences, FiniteSets, TLC

VARIABLES
    \* ---- MessageRenderer
    message,        \* props.message: [id, role, content]
    parts,          \* the React nodes returned by MessageRenderer
    rendered,       \* whether MessageRenderer has run on message
    \* ---- truncate, stripHtml
    inputText,      \* the argument text / html
    maxLen,         \* the argument maxLen of truncate
    called,         \* "none", "truncate" or "stripHtml": the function that ran
    output,         \* what it returned
    \* ---- usePageContext
    pathname,       \* location.pathname
    store,          \* the slices of the Redux store usePageContext selects
    built,          \* whether buildPageContext has run on them
    page,           \* what it returned: [pageType, pageContext]
    \* ---- PixelChatbot (the floating bubble)
    isPop,          \* the chat panel is open (PixelChatBox is mounted)
    tipsMessage,
    isExpanded,
    position,       \* [x, y] given to Draggable
    isDragging,
    innerWidth,     \* window.innerWidth
    innerHeight,    \* window.innerHeight
    isDivVisible,   \* the tips box is shown
    gesture,        \* the mouse gesture on the bubble: none, started, moved,
                    \* droppedStill, droppedMoved
    timers,         \* how many deferred resets of isDragging (setTimeout 0) are pending
    clicked,        \* what the last step, a click on the bubble, found; None
                    \* if the last step was no click
    \* ---- PixelChatBox (the chat panel), state of the mounted instance
    isLoading,
    messages,       \* the transcript
    userInput,
    maxContentSize,
    \* ---- the environment of the chat panel
    instance,       \* number of the mounted PixelChatBox instance (0: none yet)
    requests,       \* the requests in flight: [id, kind, instance, userMessageId]
    issued,         \* how many requests have been issued
    uuids,          \* how many ids uuid() has handed out
    settled         \* the request the last step settled, None if it settled none

renderVars == <<message, parts, rendered>>
textVars == <<inputText, maxLen, called, output>>
contextVars == <<pathname, store, built, page>>
widgetVars == <<isPop, tipsMessage, isExpanded, position, isDragging,
                innerWidth, innerHeight, isDivVisible, gesture, timers, clicked>>
panelVars == <<isLoading, messages, userInput, maxContentSize>>
envVars == <<instance, requests, issued, uuids, settled>>
chatVars == <<widgetVars, panelVars, envVars>>
vars == <<message, parts, rendered, inputText, maxLen, called, output,
          pathname, store, built, page, chatVars>>

-----------------------------------------------------------------------------
(* Bounds of the model *)

MaxTokens == 5          \* rendered contents are made of at most MaxTokens tokens
MaxTextLen == 5         \* texts given to truncate and stripHtml have at most MaxTextLen characters
MaxLimit == 3           \* truncate is called with maxLen in 0 .. MaxLimit
MaxTabs == 2            \* a workspace has at most MaxTabs editor tabs
MaxMounts == 2          \* the chat panel is opened at most MaxMounts times
MaxRequests == 4        \* at most MaxRequests requests are issued
MaxTimers == 2          \* at most MaxTimers deferred resets of isDragging are pending

-----------------------------------------------------------------------------
(* Strings *)

None == << >>
Some(v) == << v >>

Min(S) == CHOOSE m \in S : \A n \in S : m <= n

Slice(s, a, b) == SubSeq(s, a + 1, b)

\* s has pat at 0-based index i
HasAt(s, i, pat) ==
    /\ i >= 0
    /\ i + Len(pat) <= Len(s)
    /\ SubSeq(s, i + 1, i + Len(pat)) = pat

StartsWith(s, pat) == HasAt(s, 0, pat)

\* s.indexOf(pat, from), -1 when absent
IndexOf(s, pat, from) ==
    LET hits == {j \in from .. Len(s) : HasAt(s, j, pat)}
    IN  IF hits = {} THEN -1 ELSE Min(hits)

RECURSIVE Flatten(_)
Flatten(ss) == IF ss = << >> THEN << >> ELSE Head(ss) \o Flatten(Tail(ss))

NL == <<"\n">>
\* the backtick character (the module's strings cannot hold it)
BACKTICK == "BACKTICK"
FENCE == <<BACKTICK, BACKTICK, BACKTICK>>
JAVASCRIPT == <<"j", "a", "v", "a", "s", "c", "r", "i", "p", "t">>
JS == <<"j", "s">>

\* \w of a JavaScript regular expression
WordChars ==
    {"a", "b", "c", "d", "e", "f", "g", "h", "i", "j", "k", "l", "m",
     "n", "o", "p", "q", "r", "s", "t", "u", "v", "w", "x", "y", "z",
     "A", "B", "C", "D", "E", "F", "G", "H", "I", "J", "K", "L", "M",
     "N", "O", "P", "Q", "R", "S", "T", "U", "V", "W", "X", "Y", "Z",
     "0", "1", "2", "3", "4", "5", "6", "7", "8", "9", "_"}

IsWordChar(c) == c \in WordChars

\* text.split('\n')
RECURSIVE Split(_)
Split(text) ==
    LET n == IndexOf(text, NL, 0)
    IN  IF n = -1 THEN <<text>>
        ELSE <<Slice(text, 0, n)>> \o Split(Slice(text, n + 1, Len(text)))

\* strs.join(sep)
RECURSIVE JoinBy(_, _)
JoinBy(strs, sep) ==
    IF strs = << >> THEN << >>
    ELSE IF Len(strs) = 1 THEN strs[1]
    ELSE strs[1] \o sep \o JoinBy(Tail(strs), sep)

\* lines.join('\n')
Join(lines) == JoinBy(lines, NL)

\* a fixed sentence of the source, as one symbol
Lit(sentence) == <<sentence>>

DigitChars == <<"0", "1", "2", "3", "4", "5", "6", "7", "8", "9">>

\* String(n) of a natural number
RECURSIVE NumStr(_)
NumStr(n) ==
    IF n < 10 THEN <<DigitChars[n + 1]>>
    ELSE NumStr(n \div 10) \o <<DigitChars[(n % 10) + 1]>>

\* arr[i] of an array, rec[key] of a lookup: None when absent
At(arr, i) == IF i >= 0 /\ i < Len(arr) THEN Some(arr[i + 1]) ELSE None
Lookup(rec, key) == IF key \in DOMAIN rec THEN Some(rec[key]) ELSE None

\* a regular expression that did not match
NoMatch == [found |-> FALSE]

\* a string that is neither undefined nor empty
Truthy(opt) == opt # None /\ opt[1] # << >>

\* the white space String.prototype.trim removes
WhiteSpace == {" ", "\n", "\t", "\r"}

RECURSIVE TrimStart(_)
TrimStart(s) ==
    IF s # << >> /\ Head(s) \in WhiteSpace THEN TrimStart(Tail(s)) ELSE s

RECURSIVE TrimEnd(_)
TrimEnd(s) ==
    IF s # << >> /\ s[Len(s)] \in WhiteSpace
    THEN TrimEnd(SubSeq(s, 1, Len(s) - 1)) ELSE s

\* s.trim()
Trim(s) == TrimEnd(TrimStart(s))

-----------------------------------------------------------------------------
(* truncate, stripHtml *)

DefaultMaxLen == 3000
TRUNCATED ==
    <<".", ".", ".", " ", "[", "t", "r", "u", "n", "c", "a", "t", "e", "d", "]">>

\* truncate with < for <=
TruncateOffByOne(s, limit) ==
    IF Len(s) < limit THEN s
    ELSE Slice(s, 0, limit) \o NL \o TRUNCATED

truncate(s, limit) ==
    IF Len(s) <= limit THEN s
    ELSE Slice(s, 0, limit) \o NL \o TRUNCATED

LT == <<"<">>
GT == <<">">>

\* one attempt of the tag regular expression (<, any run without >, >) anchored
\* at index i: the index just past the match, -1 when it does not match
TagEndAt(s, i) ==
    IF ~HasAt(s, i, LT) THEN -1
    ELSE LET c == IndexOf(s, GT, i + 1)
         IN  IF c = -1 THEN -1 ELSE c + 1

\* s.slice(from).replace(tag regular expression, global, '')
RECURSIVE ReplaceTags(_, _)
ReplaceTags(s, from) ==
    LET starts == {i \in from .. Len(s) : TagEndAt(s, i) # -1}
    IN  IF starts = {} THEN Slice(s, from, Len(s))
        ELSE LET i == Min(starts)
             IN  Slice(s, from, i) \o ReplaceTags(s, TagEndAt(s, i))

\* stripHtml whose tag runs to the last > of the text (a greedy .*)
StripHtmlGreedy(html) ==
    LET opens == {i \in 0 .. Len(html) : TagEndAt(html, i) # -1}
        closes == {j \in 0 .. Len(html) : HasAt(html, j, GT)}
    IN  IF opens = {} THEN Trim(html)
        ELSE Trim(Slice(html, 0, Min(opens))
                    \o Slice(html, (CHOOSE j \in closes : \A k \in closes : k <= j) + 1,
                             Len(html)))

stripHtml(html) == Trim(ReplaceTags(html, 0))

-----------------------------------------------------------------------------
(* usePageContext: getEditorCode, buildPageContext *)

QuestionLimit == 1500
OutputLimit == 1000
SummaryLimit == 800
OutputEntries == 10

PLAYGROUND == <<"/", "p", "l", "a", "y", "g", "r", "o", "u", "n", "d">>
COURSES == <<"/", "c", "o", "u", "r", "s", "e", "s", "/">>
MISSION_CONTROL == <<"/", "m", "i", "s", "s", "i", "o", "n", "-", "c", "o", "n", "t", "r", "o", "l">>
CONTRIBUTORS == <<"/", "c", "o", "n", "t", "r", "i", "b", "u", "t", "o", "r", "s">>
WELCOME == <<"/", "w", "e", "l", "c", "o", "m", "e">>
GRADING == <<"g", "r", "a", "d", "i", "n", "g">>
GROUNDCONTROL == <<"g", "r", "o", "u", "n", "d", "c", "o", "n", "t", "r", "o", "l">>
ADMINPANEL == <<"a", "d", "m", "i", "n", "p", "a", "n", "e", "l">>
ACHIEVEMENTS == <<"a", "c", "h", "i", "e", "v", "e", "m", "e", "n", "t", "s">>
SOURCECAST == <<"s", "o", "u", "r", "c", "e", "c", "a", "s", "t">>
GAME == <<"g", "a", "m", "e">>
STORIES == <<"s", "t", "o", "r", "i", "e", "s">>
PROGRAMMING == <<"p", "r", "o", "g", "r", "a", "m", "m", "i", "n", "g">>

\* the text '// Tab ${i + 1}\n${tab.value}' of the tab at position n = i + 1
TabText(n, tab) == <<"/", "/", " ", "T", "a", "b", " ">> \o NumStr(n) \o NL \o tab.value

\* getEditorCode that reads activeTab as a position counted from 1
getEditorCodeOneBased(editorTabs, activeTab) ==
    IF Len(editorTabs) = 0 THEN None
    ELSE IF activeTab # None /\ At(editorTabs, activeTab[1] - 1) # None
    THEN Some(At(editorTabs, activeTab[1] - 1)[1].value)
    ELSE LET allCode ==
                 JoinBy([n \in 1 .. Len(editorTabs) |-> TabText(n, editorTabs[n])],
                        NL \o NL)
         IN  IF allCode # << >> THEN Some(allCode) ELSE None

getEditorCode(editorTabs, activeTab) ==
    IF Len(editorTabs) = 0 THEN None
    ELSE IF activeTab # None /\ At(editorTabs, activeTab[1]) # None
    THEN Some(At(editorTabs, activeTab[1])[1].value)
    ELSE LET allCode ==
                 JoinBy([n \in 1 .. Len(editorTabs) |-> TabText(n, editorTabs[n])],
                        NL \o NL)
         IN  IF allCode # << >> THEN Some(allCode) ELSE None

\* a titled code block: newline, title, newline, FENCE javascript, newline,
\* truncate(code), newline, FENCE
CodeBlock(title, code) ==
    NL \o Lit(title) \o NL \o FENCE \o JAVASCRIPT \o NL
       \o truncate(code, DefaultMaxLen) \o NL \o FENCE

RouteLine(path) == Lit("Route: ") \o path

\* arr.slice(-n)
LastN(arr, n) == IF Len(arr) <= n THEN arr ELSE SubSeq(arr, Len(arr) - n + 1, Len(arr))

\* o.type === 'result' ? String(o.value) : o.type === 'errors' ? o.errors : String(o)
OutputText(o) ==
    IF o.type = "result" THEN o.value
    ELSE IF o.type = "errors" THEN o.errors
    ELSE Lit("[object Object]")

\* the Playground branch
PlaygroundContext(path, st) ==
    LET code == getEditorCode(st.playgroundEditorTabs, st.playgroundActiveTab)
        p0 == <<Lit("The user is currently on the Source Academy Playground - an interactive code editor for the Source language (a subset of JavaScript)."),
                RouteLine(path)>>
        p1 == IF Truthy(code)
              THEN Append(p0, CodeBlock("The user's current code in the editor:", code[1]))
              ELSE p0
        p2 == IF st.playgroundReplValue # << >>
              THEN Append(p1, NL \o Lit("The user's current REPL input: ")
                                 \o st.playgroundReplValue)
              ELSE p1
        outs == LastN(st.playgroundOutput, OutputEntries)
        p3 == IF Len(st.playgroundOutput) > 0
              THEN Append(p2, NL \o Lit("Recent program output:") \o NL
                                 \o truncate(Join([k \in 1 .. Len(outs) |-> OutputText(outs[k])]),
                                             OutputLimit))
              ELSE p2
    IN  [pageType |-> "playground", pageContext |-> Join(p3)]

\* the parts of the Grading branch that describe the selected submission
GradingSubmissionParts(st) ==
    LET grading == IF st.currentSubmissionId # None
                   THEN Lookup(st.gradings, st.currentSubmissionId[1]) ELSE None
        answers == IF grading # None THEN grading[1].answers ELSE None
        gq == IF answers # None /\ st.currentGradingQuestion # None
              THEN At(answers[1], st.currentGradingQuestion[1]) ELSE None
    IN  IF gq = None THEN << >>
        ELSE LET q == gq[1].question
                 a0 == IF q # None /\ q[1].content # << >>
                       THEN <<NL \o Lit("Question being graded:") \o NL
                                 \o truncate(stripHtml(q[1].content), QuestionLimit)>>
                       ELSE << >>
                 a1 == IF q # None /\ q[1].answer # None
                       THEN <<CodeBlock("Student's submitted answer:", q[1].answer[1])>>
                       ELSE << >>
                 a2 == IF gq[1].grade # None /\ gq[1].grade[1].comments # << >>
                       THEN <<NL \o Lit("Grader comments so far: ")
                                 \o gq[1].grade[1].comments>>
                       ELSE << >>
                 a3 == IF gq[1].student # None
                       THEN <<NL \o Lit("Student: ") \o gq[1].student[1].name
                                 \o <<" ", "(">> \o gq[1].student[1].username \o <<")">> >>
                       ELSE << >>
             IN  a0 \o a1 \o a2 \o a3

\* the Grading branch
GradingContext(path, st) ==
    LET p0 == <<Lit("The user is on the Grading page - a staff view for reviewing student submissions."),
                RouteLine(path)>>
        p1 == p0 \o GradingSubmissionParts(st)
        gradingCode == getEditorCode(st.gradingEditorTabs, st.gradingActiveTab)
        p2 == IF Truthy(gradingCode)
              THEN Append(p1, CodeBlock("Code currently visible in the grading editor:",
                                        gradingCode[1]))
              ELSE p1
    IN  [pageType |-> "grading", pageContext |-> Join(p2)]

\* the parts of the Assessment branch that describe the selected assessment
AssessmentParts(st) ==
    LET found == IF st.currentAssessmentId # None
                 THEN Lookup(st.assessments, st.currentAssessmentId[1]) ELSE None
    IN  IF found = None THEN << >>
        ELSE LET assessment == found[1]
                 a0 == IF assessment.title # << >>
                       THEN <<NL \o Lit("Assessment title: ") \o assessment.title>>
                       ELSE << >>
                 a1 == IF assessment.longSummary # << >>
                       THEN <<NL \o Lit("Assessment summary: ")
                                 \o truncate(stripHtml(assessment.longSummary), SummaryLimit)>>
                       ELSE << >>
                 question == IF st.currentAssessmentQuestion # None /\ assessment.questions # None
                             THEN At(assessment.questions[1], st.currentAssessmentQuestion[1])
                             ELSE None
                 a2 == IF question # None /\ question[1].content # << >>
                       THEN <<NL \o Lit("Current question (Q")
                                 \o NumStr(st.currentAssessmentQuestion[1] + 1)
                                 \o <<")", ":">> \o NL
                                 \o truncate(stripHtml(question[1].content), QuestionLimit)>>
                       ELSE << >>
                 a3 == IF /\ question # None
                          /\ question[1].type = PROGRAMMING
                          /\ question[1].answer # None
                       THEN <<CodeBlock("Student's current answer code:", question[1].answer[1])>>
                       ELSE << >>
             IN  a0 \o a1 \o a2 \o a3

\* the Assessment branch
AssessmentContext(path, st) ==
    LET p0 == <<Lit("The user is on an assessment page (mission, quest, path, or other assignment type)."),
                RouteLine(path)>>
        p1 == p0 \o AssessmentParts(st)
        assessmentCode == getEditorCode(st.assessmentEditorTabs, st.assessmentActiveTab)
        p2 == IF Truthy(assessmentCode)
              THEN Append(p1, CodeBlock("Code currently in the assessment editor:",
                                        assessmentCode[1]))
              ELSE p1
    IN  [pageType |-> "assessment", pageContext |-> Join(p2)]

\* a page that is described by one fixed sentence
FixedContext(type, sentence, path) ==
    [pageType |-> type, pageContext |-> Lit(sentence) \o NL \o RouteLine(path)]

IsDigit(c) == c \in {"0", "1", "2", "3", "4", "5", "6", "7", "8", "9"}

\* index just past the greedy run \d+ that starts at index i
DigitRunEnd(s, i) ==
    Min({j \in i .. Len(s) : j = Len(s) \/ ~IsDigit(s[j + 1])})

\* the course regular expression with any course id that has no slash
CourseMatchAnyId(path) ==
    IF ~StartsWith(path, COURSES) THEN NoMatch
    ELSE LET d == IndexOf(path, <<"/">>, Len(COURSES))
         IN  IF d = -1 \/ d = Len(COURSES) THEN NoMatch
             ELSE LET nl == IndexOf(path, NL, d + 1)
                  IN  [found |-> TRUE,
                       g1 |-> Slice(path, Len(COURSES), d),
                       g2 |-> Slice(path, d + 1, IF nl = -1 THEN Len(path) ELSE nl)]

\* pathname.match of the course regular expression: /courses/, a run of digits,
\* a slash, and the rest of the line
CourseMatch(path) ==
    IF ~StartsWith(path, COURSES) THEN NoMatch
    ELSE LET d == DigitRunEnd(path, Len(COURSES))
         IN  IF d = Len(COURSES) \/ ~HasAt(path, d, <<"/">>) THEN NoMatch
             ELSE LET nl == IndexOf(path, NL, d + 1)
                  IN  [found |-> TRUE,
                       g1 |-> Slice(path, Len(COURSES), d),
                       g2 |-> Slice(path, d + 1, IF nl = -1 THEN Len(path) ELSE nl)]

buildPageContext(path, st) ==
    IF StartsWith(path, PLAYGROUND) THEN PlaygroundContext(path, st)
    ELSE LET courseMatch == CourseMatch(path)
         IN
    IF courseMatch.found
    THEN LET subPath == courseMatch.g2
         IN  IF StartsWith(subPath, GRADING) THEN GradingContext(path, st)
             ELSE IF StartsWith(subPath, GROUNDCONTROL)
             THEN FixedContext("groundcontrol",
                      "The user is on Ground Control - a staff management page for assessments.", path)
             ELSE IF StartsWith(subPath, ADMINPANEL)
             THEN FixedContext("adminpanel",
                      "The user is on the Admin Panel - course administration settings.", path)
             ELSE IF StartsWith(subPath, ACHIEVEMENTS)
             THEN FixedContext("achievements",
                      "The user is on the Achievements page - gamification and goals tracking.", path)
             ELSE IF StartsWith(subPath, SOURCECAST)
             THEN FixedContext("sourcecast",
                      "The user is on the Sourcecast page - recorded coding sessions.", path)
             ELSE IF StartsWith(subPath, GAME)
             THEN FixedContext("game",
                      "The user is on the Game page - the Source Academy story game.", path)
             ELSE IF StartsWith(subPath, STORIES)
             THEN FixedContext("stories",
                      "The user is on the Stories page - story management for the game.", path)
             ELSE AssessmentContext(path, st)
    ELSE IF StartsWith(path, MISSION_CONTROL)
    THEN FixedContext("mission-control",
             "The user is on Mission Control - assessment management interface.", path)
    ELSE IF StartsWith(path, CONTRIBUTORS)
    THEN FixedContext("contributors",
             "The user is on the Contributors page - listing Source Academy contributors.", path)
    ELSE IF StartsWith(path, WELCOME)
    THEN FixedContext("welcome",
             "The user is on the Welcome page - initial setup after login.", path)
    ELSE FixedContext("general", "The user is browsing Source Academy.", path)

-----------------------------------------------------------------------------
(* MessageRenderer *)

\* index just past the greedy run (\w+)? that starts at index i
WordRunEnd(s, i) ==
    Min({j \in i .. Len(s) : j = Len(s) \/ ~IsWordChar(s[j + 1])})

\* MatchAt with a fence that also ends at the end of the input
MatchAtOpenEnded(s, i) ==
    IF ~HasAt(s, i, FENCE) THEN NoMatch
    ELSE LET t == WordRunEnd(s, i + 3)
         IN  IF ~HasAt(s, t, NL) THEN NoMatch
             ELSE LET c == IndexOf(s, FENCE, t + 1)
                      e == IF c = -1 THEN Len(s) ELSE c
                  IN  [found |-> TRUE,
                       index |-> i,
                       g1 |-> Slice(s, i + 3, t),
                       g2 |-> Slice(s, t + 1, e),
                       lastIndex |-> IF c = -1 THEN Len(s) ELSE c + 3]

\* One attempt of codeBlockRegex (FENCE, optional \w+ tag, newline, lazy body,
\* FENCE) anchored at index i.  The tag is the whole word run (a shorter run is followed by a word character, never
\* by the newline), the body is lazy: it ends at the nearest closing fence.
MatchAt(s, i) ==
    IF ~HasAt(s, i, FENCE) THEN NoMatch
    ELSE LET t == WordRunEnd(s, i + 3)
         IN  IF ~HasAt(s, t, NL) THEN NoMatch
             ELSE LET c == IndexOf(s, FENCE, t + 1)
                  IN  IF c = -1 THEN NoMatch
                      ELSE [found |-> TRUE,
                            index |-> i,
                            g1 |-> Slice(s, i + 3, t),
                            g2 |-> Slice(s, t + 1, c),
                            lastIndex |-> c + 3]

\* codeBlockRegex.exec(content) with codeBlockRegex.lastIndex = lastIndex:
\* the leftmost match at or after lastIndex
RegExpExec(s, lastIndex) ==
    LET starts == {i \in lastIndex .. Len(s) : MatchAt(s, i).found}
    IN  IF starts = {} THEN NoMatch ELSE MatchAt(s, Min(starts))

\* TextPart that drops the empty lines
TextPartNoBlank(key, text) ==
    [kind |-> "text", key |-> key,
     lines |-> SelectSeq(Split(text), LAMBDA line : line # << >>)]

\* <div key=...>{text.split('\n').map(line => <>{line}<br/></>)}</div>
TextPart(key, text) ==
    [kind |-> "text", key |-> key, lines |-> Split(text)]

\* CodePart that ignores the captured tag
CodePartDefaultLang(key, lang, code) ==
    [kind |-> "code", key |-> key, language |-> JAVASCRIPT, source |-> code,
     static |-> FALSE]

\* <ChatbotCodeSnippet .../>, wrapped in a static <div> unless the language
\* is javascript or js
CodePart(key, lang, code) ==
    [kind |-> "code", key |-> key, language |-> lang, source |-> code,
     static |-> ~(lang = JAVASCRIPT \/ lang = JS)]

\* RenderLoop that emits the trailing text even when it is empty
RECURSIVE RenderLoopAlwaysTail(_, _, _, _, _)
RenderLoopAlwaysTail(messageId, content, lastIndex, codeBlockIndex, acc) ==
    LET match == RegExpExec(content, lastIndex)
    IN  IF ~match.found
        THEN Append(acc, TextPart(<<messageId, "text-end">>,
                                  Slice(content, lastIndex, Len(content))))
        ELSE LET lang == IF match.g1 # << >> THEN match.g1 ELSE JAVASCRIPT
                 withText ==
                     IF match.index > lastIndex
                     THEN Append(acc, TextPart(<<messageId, "text", lastIndex>>,
                                               Slice(content, lastIndex, match.index)))
                     ELSE acc
             IN  RenderLoopAlwaysTail(messageId, content, match.lastIndex,
                                      codeBlockIndex + 1,
                                      Append(withText,
                                             CodePart(<<messageId, "code", codeBlockIndex>>,
                                                      lang, match.g2)))

\* the while loop over codeBlockRegex.exec and the trailing text
RECURSIVE RenderLoop(_, _, _, _, _)
RenderLoop(messageId, content, lastIndex, codeBlockIndex, acc) ==
    LET match == RegExpExec(content, lastIndex)
    IN  IF ~match.found
        THEN IF lastIndex < Len(content)
             THEN Append(acc, TextPart(<<messageId, "text-end">>,
                                       Slice(content, lastIndex, Len(content))))
             ELSE acc
        ELSE LET lang == IF match.g1 # << >> THEN match.g1 ELSE JAVASCRIPT
                 withText ==
                     IF match.index > lastIndex
                     THEN Append(acc, TextPart(<<messageId, "text", lastIndex>>,
                                               Slice(content, lastIndex, match.index)))
                     ELSE acc
             IN  RenderLoop(messageId, content, match.lastIndex, codeBlockIndex + 1,
                            Append(withText,
                                   CodePart(<<messageId, "code", codeBlockIndex>>,
                                            lang, match.g2)))

MessageRenderer(msg) == RenderLoop(msg.id, msg.content, 0, 0, << >>)

-----------------------------------------------------------------------------
(* Inputs of the renderer *)

\* the tokens contents are made of: a lone backtick, a fence, a newline,
\* a word character, a character that is neither
Tokens == {<<BACKTICK>>, FENCE, NL, <<"j">>, <<" ">>}

TokenStrings == UNION {{Flatten(ts) : ts \in [1 .. k -> Tokens]} : k \in 0 .. MaxTokens}

\* runs of text without backticks or newlines, and language tags
PlainTexts == {<<"a">>, <<"b">>, <<"x", "=", "1">>, <<" ">>}
Tags == {JS, JAVASCRIPT, <<"p", "y">>}

\* T1 \n FENCE tag \n body \n FENCE \n T2
Fenced(t1, tag, body, t2) ==
    t1 \o NL \o FENCE \o tag \o NL \o body \o NL \o FENCE \o NL \o t2

FencedContents ==
    {Fenced(t1, tag, body, t2) :
        t1 \in PlainTexts, tag \in Tags, body \in PlainTexts, t2 \in PlainTexts}

Contents == TokenStrings \cup FencedContents

-----------------------------------------------------------------------------
(* Specification of the renderer: a message is given, MessageRenderer runs *)

Render ==
    /\ ~rendered
    /\ parts' = MessageRenderer(message)
    /\ rendered' = TRUE
    /\ UNCHANGED message

-----------------------------------------------------------------------------
(* Properties of the renderer *)

content == message.content

EndsWith(s, suf) ==
    Len(suf) <= Len(s) /\ SubSeq(s, Len(s) - Len(suf) + 1, Len(s)) = suf

\* the fence marker a code part was cut from: its language tag, which may
\* have been absent when the language is the javascript default
TagChoices(language) ==
    IF language = JAVASCRIPT THEN {<< >>, JAVASCRIPT} ELSE {language}

\* the texts a part may have been cut from
PartTexts(p) ==
    IF p.kind = "text" THEN {Join(p.lines)}
    ELSE {FENCE \o tag \o NL \o p.source \o FENCE : tag \in TagChoices(p.language)}

\* s is the concatenation of the texts of the parts ps, in order
RECURSIVE Reproduces(_, _)
Reproduces(ps, s) ==
    IF ps = << >> THEN s = << >>
    ELSE \E w \in PartTexts(Head(ps)) :
            /\ StartsWith(s, w)
            /\ Reproduces(Tail(ps), Slice(s, Len(w), Len(s)))

NoFence(s) == \A j \in 0 .. Len(s) : ~HasAt(s, j, FENCE)

IsOneText(ps, s) ==
    /\ Len(ps) = 1
    /\ ps[1].kind = "text"
    /\ Join(ps[1].lines) = s

\* C3: the parts, concatenated back (text lines joined by newline, code parts
\* wrapped in the fence markers and their language tag, an absent tag having
\* become the javascript default), reproduce the content exactly.
C3_RoundTrip == rendered => Reproduces(parts, content)

C3_Witness ==
    /\ rendered
    /\ Len(parts) = 3
    /\ parts[1].kind = "text" /\ Len(parts[1].lines) > 1
    /\ parts[2].kind = "code" /\ parts[2].language = JAVASCRIPT
    /\ parts[3].kind = "text"

\* C4 as stated: content without a fence, the empty string included, renders
\* as exactly one text part whose text is the content.
C4_Original == (rendered /\ NoFence(content)) => IsOneText(parts, content)

\* C4 amended: content without a fence renders as exactly one text part whose
\* text is the content when the content is not empty, and as no part at all
\* when it is empty.
C4_NoFence ==
    (rendered /\ NoFence(content)) =>
        IF content = << >> THEN parts = << >> ELSE IsOneText(parts, content)

C4_Witness ==
    /\ rendered
    /\ NoFence(content)
    /\ IndexOf(content, NL, 0) # -1
    /\ IndexOf(content, <<BACKTICK, BACKTICK>>, 0) # -1
    /\ IsOneText(parts, content)

\* C5 as stated: T1 \n FENCE tag \n body \n FENCE \n T2 renders as text(T1),
\* code(tag, body), text(T2).
C5_Original ==
    \A t1 \in PlainTexts, tag \in Tags, body \in PlainTexts, t2 \in PlainTexts :
        (rendered /\ content = Fenced(t1, tag, body, t2)) =>
            /\ Len(parts) = 3
            /\ parts[1].kind = "text" /\ parts[1].lines = <<t1>>
            /\ parts[2].kind = "code" /\ parts[2].language = tag
            /\ parts[2].source = body
            /\ parts[3].kind = "text" /\ parts[3].lines = <<t2>>

\* C5 amended: T1 \n FENCE tag \n body \n FENCE \n T2 renders as three parts:
\* the text T1 with its newline (the lines T1 and ""), the code part with
\* language tag and source body followed by its newline, and the text of the
\* newline and T2 (the lines "" and T2).
C5_Fenced ==
    \A t1 \in PlainTexts, tag \in Tags, body \in PlainTexts, t2 \in PlainTexts :
        (rendered /\ content = Fenced(t1, tag, body, t2)) =>
            /\ Len(parts) = 3
            /\ parts[1].kind = "text" /\ parts[1].lines = <<t1, << >> >>
            /\ parts[2].kind = "code" /\ parts[2].language = tag
            /\ parts[2].source = body \o NL
            /\ parts[3].kind = "text" /\ parts[3].lines = << << >>, t2>>

C5_Witness ==
    /\ rendered
    /\ content = Fenced(<<"a">>, JS, <<"x", "=", "1">>, <<"b">>)
    /\ Len(parts) = 3

\* an opening fence marker at index i: FENCE, optional tag, newline
OpeningFenceAt(s, i) ==
    /\ HasAt(s, i, FENCE)
    /\ \E k \in 0 .. Len(s) :
          /\ \A j \in 1 .. k : i + 3 + j <= Len(s) /\ IsWordChar(s[i + 3 + j])
          /\ HasAt(s, i + 3 + k, NL)

\* ... with no fence after it
Unterminated(s, i) ==
    /\ OpeningFenceAt(s, i)
    /\ \A j \in i + 3 .. Len(s) : ~HasAt(s, j, FENCE)

\* C6: an opening fence marker with no fence after it opens no code part: the
\* last part is a text that holds everything after the marker, and the marker
\* too unless backticks of it are taken by the closing fence of the code part
\* before; when no fence precedes the marker, the content renders as a single
\* text part.
C6_Unterminated ==
    rendered =>
        \A i \in 0 .. Len(content) :
            Unterminated(content, i) =>
                /\ parts # << >>
                /\ parts[Len(parts)].kind = "text"
                /\ LET tail == Join(parts[Len(parts)].lines)
                   IN  \/ EndsWith(tail, Slice(content, i, Len(content)))
                       \/ /\ EndsWith(tail, Slice(content, i + 3, Len(content)))
                          /\ Len(parts) >= 2
                          /\ parts[Len(parts) - 1].kind = "code"
                /\ (\A j \in 0 .. i - 1 : ~HasAt(content, j, FENCE)) =>
                        IsOneText(parts, content)

C6_Witness ==
    /\ rendered
    /\ \E i \in 1 .. Len(content) :
          /\ Unterminated(content, i)
          /\ \A j \in 0 .. i - 1 : ~HasAt(content, j, FENCE)
          /\ Len(content) > i + 4
    /\ IsOneText(parts, content)

-----------------------------------------------------------------------------
(* Specification of truncate and stripHtml: a text is given, one of them runs *)

TextAlphabet == {"<", ">", " ", "a"}

HtmlExample ==
    <<"<", "p", ">", "H", "e", "l", "l", "o", " ", "<", "b", ">",
      "W", "o", "r", "l", "d", "<", "/", "b", ">", "<", "/", "p", ">">>

Texts == UNION {[1 .. k -> TextAlphabet] : k \in 0 .. MaxTextLen} \cup {HtmlExample}

CallTruncate ==
    /\ called = "none"
    /\ \E limit \in 0 .. MaxLimit :
          /\ maxLen' = limit
          /\ output' = truncate(inputText, limit)
    /\ called' = "truncate"
    /\ UNCHANGED inputText

CallStripHtml ==
    /\ called = "none"
    /\ output' = stripHtml(inputText)
    /\ called' = "stripHtml"
    /\ UNCHANGED <<inputText, maxLen>>

-----------------------------------------------------------------------------
(* Properties of truncate and stripHtml *)

\* C8 as stated: a text longer than the limit L becomes its first L characters
\* followed directly by the 15 characters of the marker; a text of length at
\* most L is returned as it is.
C8_Original ==
    called = "truncate" =>
        IF Len(inputText) > maxLen
        THEN /\ Len(output) = maxLen + 15
             /\ output = SubSeq(inputText, 1, maxLen) \o TRUNCATED
        ELSE output = inputText

\* C8 amended: a text longer than the limit L becomes its first L characters,
\* a newline and the marker, L + 16 characters in all; a text of length at
\* most L is returned as it is.
C8_Truncate ==
    called = "truncate" =>
        IF Len(inputText) > maxLen
        THEN /\ Len(output) = maxLen + 16
             /\ output = SubSeq(inputText, 1, maxLen) \o <<"\n">> \o TRUNCATED
        ELSE output = inputText

C8_Witness ==
    /\ called = "truncate"
    /\ maxLen = 2
    /\ Len(inputText) = 3
    /\ Len(output) = 18

\* the character at position p (from 1) of s is inside a tag span: a < at or
\* before it has no > between the two, and a > is at or after it
InTag(s, p) ==
    /\ \E a \in 1 .. p : s[a] = "<" /\ \A q \in a .. p - 1 : s[q] # ">"
    /\ \E b \in p .. Len(s) : s[b] = ">"

\* the characters of s outside the tag spans, in order
RECURSIVE OutsideTags(_, _)
OutsideTags(s, p) ==
    IF p > Len(s) THEN << >>
    ELSE (IF InTag(s, p) THEN << >> ELSE <<s[p]>>) \o OutsideTags(s, p + 1)

\* t is s without its leading and trailing white space
IsTrimOf(t, s) ==
    /\ t # << >> => t[1] \notin WhiteSpace /\ t[Len(t)] \notin WhiteSpace
    /\ \E a \in 0 .. Len(s) :
          /\ a + Len(t) <= Len(s)
          /\ SubSeq(s, a + 1, a + Len(t)) = t
          /\ \A q \in (1 .. a) \cup (a + Len(t) + 1 .. Len(s)) : s[q] \in WhiteSpace

\* C9 as stated: stripHtml returns the characters outside the tag spans,
\* unchanged and in order, leading and trailing white space included.
C9_Original == called = "stripHtml" => output = OutsideTags(inputText, 1)

\* C9 amended: stripHtml returns the characters outside the tag spans, in
\* order, without the white space that leads and trails them.
C9_StripHtml == called = "stripHtml" => IsTrimOf(output, OutsideTags(inputText, 1))

C9_Witness ==
    /\ called = "stripHtml"
    /\ inputText = HtmlExample
    /\ output = <<"H", "e", "l", "l", "o", " ", "W", "o", "r", "l", "d">>

-----------------------------------------------------------------------------
(* Specification of usePageContext: a route and a state of the store are   *)
(* given, buildPageContext runs                                            *)

RouteHeads ==
    {<< >>, <<"/", "p", "l", "a", "y", "g", "r", "o", "u", "n", "d">>, <<"/", "p", "l", "a", "y", "g", "r", "o", "u", "n">>, <<"/", "c", "o", "u", "r", "s", "e", "s">>, <<"/", "c", "o", "u", "r", "s", "e">>,
     <<"/", "m", "i", "s", "s", "i", "o", "n", "-", "c", "o", "n", "t", "r", "o", "l">>, <<"/", "c", "o", "n", "t", "r", "i", "b", "u", "t", "o", "r", "s">>, <<"/", "w", "e", "l", "c", "o", "m", "e">>, <<"/", "s", "i", "c", "p", "j", "s">>, <<"x", "/", "w", "e", "l", "c", "o", "m", "e">>}
RouteMids == {<< >>, <<"/">>, <<"/", "5", "/">>, <<"/", "1", "2", "/">>, <<"/", "5">>, <<"/", "a", "/">>, <<"/", "5", "a", "/">>}
RouteTails ==
    {<< >>, <<"g", "r", "a", "d", "i", "n", "g">>, <<"g", "r", "a", "d", "i", "n">>, <<"g", "r", "a", "d", "i", "n", "g", "/", "7">>, <<"g", "r", "o", "u", "n", "d", "c", "o", "n", "t", "r", "o", "l">>, <<"a", "d", "m", "i", "n", "p", "a", "n", "e", "l">>,
     <<"a", "c", "h", "i", "e", "v", "e", "m", "e", "n", "t", "s">>, <<"s", "o", "u", "r", "c", "e", "c", "a", "s", "t">>, <<"g", "a", "m", "e">>, <<"s", "t", "o", "r", "i", "e", "s">>, <<"m", "i", "s", "s", "i", "o", "n", "s", "/", "3">>, <<"w", "e", "l", "c", "o", "m", "e">>}

Routes == {h \o m \o tl : h \in RouteHeads, m \in RouteMids, tl \in RouteTails}
GradingRoutes == {<<"/", "c", "o", "u", "r", "s", "e", "s", "/", "5", "/", "g", "r", "a", "d", "i", "n", "g">>, <<"/", "c", "o", "u", "r", "s", "e", "s", "/", "1", "2", "/", "g", "r", "a", "d", "i", "n", "g", "/", "7">>}
AssessmentRoutes == {<<"/", "c", "o", "u", "r", "s", "e", "s", "/", "5", "/", "m", "i", "s", "s", "i", "o", "n", "s", "/", "3">>, <<"/", "c", "o", "u", "r", "s", "e", "s", "/", "5", "/">>}
PlaygroundRoutes == {<<"/", "p", "l", "a", "y", "g", "r", "o", "u", "n", "d">>}

\* editor tabs and the active tab index of a workspace
TabValues == {<< >>, <<"1", "+", "1", ";">>}
TabLists == UNION {[1 .. k -> [value : TabValues]] : k \in 0 .. MaxTabs}
ActiveTabs == {None} \cup {Some(i) : i \in 0 .. MaxTabs}

\* the records the session keeps of submissions and assessments
FullAnswer ==
    [question |-> Some([content |-> <<"<", "p", ">", "Q", "<", "/", "p", ">">>, answer |-> Some(<<"f", "(", ")", ";">>)]),
     grade |-> Some([comments |-> <<"o", "k">>]),
     student |-> Some([name |-> <<"A", "n", "n">>, username |-> <<"e", "0", "1">>])]
BareAnswer == [question |-> None, grade |-> None, student |-> None]
Gradings ==
    {<< >>,
     1 :> [answers |-> Some(<<FullAnswer, BareAnswer>>)],
     1 :> [answers |-> None]}

ProgrammingQuestion ==
    [content |-> <<"<", "p", ">", "Q", "<", "/", "p", ">">>, type |-> PROGRAMMING, answer |-> Some(<<"f", "(", ")", ";">>)]
McqQuestion == [content |-> << >>, type |-> <<"m", "c", "q">>, answer |-> Some(<<"1">>)]
Assessments ==
    {<< >>,
     1 :> [title |-> <<"M", "1">>, longSummary |-> <<"<", "b", ">", "S", "<", "/", "b", ">", " ">>,
           questions |-> Some(<<ProgrammingQuestion, McqQuestion>>)],
     1 :> [title |-> << >>, longSummary |-> << >>, questions |-> None]}

Selections == {None, Some(0), Some(1), Some(2)}
SelectedIds == {None, Some(1), Some(2)}

ElevenOutputs == [k \in 1 .. 11 |-> [type |-> "result", value |-> NumStr(k)]]
Outputs ==
    {<< >>,
     <<[type |-> "result", value |-> <<"2">>]>>,
     <<[type |-> "errors", errors |-> <<"L", "i", "n", "e", " ", "1", ":", " ", "x">>], [type |-> "running"]>>,
     ElevenOutputs}

EmptyStore ==
    [playgroundEditorTabs |-> << >>, playgroundActiveTab |-> None,
     playgroundOutput |-> << >>, playgroundReplValue |-> << >>,
     assessmentEditorTabs |-> << >>, assessmentActiveTab |-> None,
     currentAssessmentId |-> None, currentAssessmentQuestion |-> None,
     gradingEditorTabs |-> << >>, gradingActiveTab |-> None,
     currentSubmissionId |-> None, currentGradingQuestion |-> None,
     assessments |-> << >>, gradings |-> << >>]

OneTab == <<[value |-> <<"1", "+", "1", ";">>]>>

FullStore ==
    [playgroundEditorTabs |-> OneTab, playgroundActiveTab |-> Some(0),
     playgroundOutput |-> ElevenOutputs, playgroundReplValue |-> <<"x">>,
     assessmentEditorTabs |-> OneTab, assessmentActiveTab |-> Some(0),
     currentAssessmentId |-> Some(1), currentAssessmentQuestion |-> Some(0),
     gradingEditorTabs |-> OneTab, gradingActiveTab |-> Some(0),
     currentSubmissionId |-> Some(1), currentGradingQuestion |-> Some(0),
     assessments |-> 1 :> [title |-> <<"M", "1">>, longSummary |-> <<"<", "b", ">", "S", "<", "/", "b", ">", " ">>,
                           questions |-> Some(<<ProgrammingQuestion, McqQuestion>>)],
     gradings |-> 1 :> [answers |-> Some(<<FullAnswer, BareAnswer>>)]]

PlaygroundStores ==
    {[EmptyStore EXCEPT !.playgroundEditorTabs = tabs, !.playgroundActiveTab = active,
                        !.playgroundOutput = outs, !.playgroundReplValue = repl] :
        tabs \in TabLists, active \in ActiveTabs, outs \in Outputs,
        repl \in {<< >>, <<"x">>}}

GradingStores ==
    {[EmptyStore EXCEPT !.gradingEditorTabs = tabs, !.gradingActiveTab = active,
                        !.currentSubmissionId = sub, !.currentGradingQuestion = q,
                        !.gradings = gs] :
        tabs \in TabLists, active \in ActiveTabs, sub \in SelectedIds,
        q \in Selections, gs \in Gradings}

AssessmentStores ==
    {[EmptyStore EXCEPT !.assessmentEditorTabs = tabs, !.assessmentActiveTab = active,
                        !.currentAssessmentId = id, !.currentAssessmentQuestion = q,
                        !.assessments = as] :
        tabs \in TabLists, active \in ActiveTabs, id \in SelectedIds,
        q \in Selections, as \in Assessments}

\* the routes and stores buildPageContext is given: every route with an empty
\* and a full store, and the routes of each workspace with its stores
ContextInputs ==
    (Routes \X {EmptyStore, FullStore})
        \cup (PlaygroundRoutes \X PlaygroundStores)
        \cup (GradingRoutes \X GradingStores)
        \cup (AssessmentRoutes \X AssessmentStores)

BuildPageContext ==
    /\ ~built
    /\ page' = buildPageContext(pathname, store)
    /\ built' = TRUE
    /\ UNCHANGED <<pathname, store>>

-----------------------------------------------------------------------------
(* Properties of usePageContext *)

PageTypes ==
    {"playground", "grading", "groundcontrol", "adminpanel", "achievements",
     "sourcecast", "game", "stories", "assessment", "mission-control",
     "contributors", "welcome", "general"}

\* /courses/{id}/...: /courses/, one or more digits, a slash
IsCourseRoute(path) ==
    /\ StartsWith(path, COURSES)
    /\ \E k \in 1 .. Len(path) :
          /\ \A j \in 1 .. k : 9 + j <= Len(path) /\ IsDigit(path[9 + j])
          /\ HasAt(path, 9 + k, <<"/">>)

KnownRoute(path) ==
    \/ StartsWith(path, PLAYGROUND)
    \/ IsCourseRoute(path)
    \/ StartsWith(path, MISSION_CONTROL)
    \/ StartsWith(path, CONTRIBUTORS)
    \/ StartsWith(path, WELCOME)

\* C7: buildPageContext returns a result (a page type and a non-empty context)
\* for every route and every state of the store, and the page type "general"
\* for every route that matches none of the known prefixes.
C7_General ==
    built =>
        /\ page.pageType \in PageTypes
        /\ page.pageContext # << >>
        /\ ~KnownRoute(pathname) => page.pageType = "general"

C7_Witness ==
    /\ built
    /\ pathname = <<"/", "c", "o", "u", "r", "s", "e", "s", "/", "a", "/", "g", "r", "a", "d", "i", "n", "g">>
    /\ store = FullStore
    /\ page.pageType = "general"

\* /courses/{id}/grading...
IsGradingRoute(path) ==
    /\ StartsWith(path, COURSES)
    /\ \E k \in 1 .. Len(path) :
          /\ \A j \in 1 .. k : 9 + j <= Len(path) /\ IsDigit(path[9 + j])
          /\ HasAt(path, 9 + k, <<"/">> \o GRADING)

GradingBase(path) ==
    <<"The user is on the Grading page - a staff view for reviewing student submissions.">>
        \o <<"\n", "Route: ">> \o path

\* the code the grading editor shows: the active tab's text when the active
\* index is one of the tabs, else the text of all tabs under // Tab N headers
RECURSIVE AllTabs(_, _)
AllTabs(tabs, n) ==
    IF n > Len(tabs) THEN << >>
    ELSE (IF n > 1 THEN <<"\n", "\n">> ELSE << >>)
            \o <<"/", "/", " ", "T", "a", "b", " ">> \o NumStr(n) \o <<"\n">> \o tabs[n].value
            \o AllTabs(tabs, n + 1)

ShownCode(tabs, active) ==
    IF active # None /\ active[1] + 1 \in 1 .. Len(tabs)
    THEN tabs[active[1] + 1].value
    ELSE AllTabs(tabs, 1)

GradingEditorBlock(code) ==
    <<"\n", "\n", "Code currently visible in the grading editor:", "\n">>
        \o FENCE \o JAVASCRIPT \o <<"\n">> \o code \o <<"\n">> \o FENCE

\* C10 as stated: on a grading route with no submission selected the page type
\* is "grading" and the context is the fixed description and the route line,
\* whatever the grading lookup and the grading editor tabs hold.
C10_Original ==
    (built /\ IsGradingRoute(pathname) /\ store.currentSubmissionId = None) =>
        /\ page.pageType = "grading"
        /\ page.pageContext = GradingBase(pathname)

\* C10 amended: on a grading route with no submission selected the page type
\* is "grading" and the context is the fixed description and the route line,
\* followed only by the code block of the grading editor when the editor
\* shows code (no question, answer, comment or student text is appended).
C10_Grading ==
    (built /\ IsGradingRoute(pathname) /\ store.currentSubmissionId = None) =>
        /\ page.pageType = "grading"
        /\ LET code == ShownCode(store.gradingEditorTabs, store.gradingActiveTab)
           IN  page.pageContext =
                   IF code = << >> THEN GradingBase(pathname)
                   ELSE GradingBase(pathname) \o GradingEditorBlock(code)

C10_Witness ==
    /\ built
    /\ pathname = <<"/", "c", "o", "u", "r", "s", "e", "s", "/", "5", "/", "g", "r", "a", "d", "i", "n", "g">>
    /\ store.currentSubmissionId = None
    /\ store.currentGradingQuestion = Some(0)
    /\ store.gradings # << >>
    /\ store.gradingEditorTabs = << >>
    /\ page.pageContext = GradingBase(pathname)

-----------------------------------------------------------------------------
(* PixelChatbot: clampPosition, togglePop *)

ICON_SIZE == 70
CHAT_WIDTH == 400
CHAT_HEIGHT == 450
CHAT_EXPANDED_WIDTH == 700
\* CHAT_EXPANDED_HEIGHT_VH = 0.8, in tenths
CHAT_EXPANDED_HEIGHT_VH == 8
CHAT_EXPANDED_MAX_HEIGHT == 800

MinOf(a, b) == IF a <= b THEN a ELSE b
MaxOf(a, b) == IF a >= b THEN a ELSE b

\* clampPosition without the lower bounds
clampPositionNoFloor(x, y, chatOpen, expanded) ==
    [x |-> MinOf(0, x), y |-> MinOf(0, y)]

clampPosition(x, y, chatOpen, expanded) ==
    LET vw == innerWidth
        vh == innerHeight
        containerW == IF chatOpen
                      THEN (IF expanded THEN CHAT_EXPANDED_WIDTH ELSE CHAT_WIDTH)
                      ELSE ICON_SIZE
        expandedH == MinOf((vh * CHAT_EXPANDED_HEIGHT_VH) \div 10, CHAT_EXPANDED_MAX_HEIGHT)
        containerH == IF chatOpen
                      THEN (IF expanded THEN expandedH ELSE CHAT_HEIGHT) + ICON_SIZE
                      ELSE ICON_SIZE
        minX == containerW - vw
        maxX == 0
        minY == containerH - vh
        maxY == 0
    IN  [x |-> MinOf(maxX, MaxOf(minX, x)), y |-> MinOf(maxY, MaxOf(minY, y))]

-----------------------------------------------------------------------------
(* PixelChatBox *)

InitialMaxContentSize == 1000

createInitialMessage(id) ==
    [id |-> id, role |-> "assistant",
     content |-> Lit("Hi! I'm Pixel, your Source Academy assistant. How can I help you today?")]

createErrorMessage(id) ==
    [id |-> id, role |-> "assistant",
     content |-> Lit("Sorry, something went wrong. Please try again later.")]

\* what the user types, what the assistant answers, what the server keeps
UserTexts == {<< >>, <<" ">>, <<"h", "i">>, <<"h", "e", "y">>}
Responses == {<<"o", "k">>}
ServerConversations ==
    {<< >>,
     <<[id |-> 101, role |-> "user", content |-> <<"h", "i">>],
       [id |-> 0, role |-> "assistant", content |-> <<"o", "k">>]>>}
ServerMaxContentSizes == {2, InitialMaxContentSize}

\* the panel is mounted and the request was issued by the mounted instance:
\* its callbacks still reach the state of the panel
Live(r) == isPop /\ r.instance = instance

\* conversationMessages.map(msg => ({...msg, id: msg.id || uuid()}))
WithIds(conv) ==
    [i \in 1 .. Len(conv) |->
        IF conv[i].id # 0 THEN conv[i]
        ELSE [conv[i] EXCEPT
                 !.id = uuids + Cardinality({j \in 1 .. i : conv[j].id = 0})]]

NewRequest(kind, inst, userMessageId) ==
    [id |-> issued + 1, kind |-> kind, instance |-> inst,
     userMessageId |-> userMessageId]

\* a click on the bubble: togglePop, with the mount of PixelChatBox (its
\* initial state and its mount effect, resetChat) when the panel opens and its
\* unmount when it closes
TogglePop ==
    /\ IF isDragging
       THEN UNCHANGED <<isPop, tipsMessage, position, panelVars,
                        instance, requests, issued, uuids>>
       ELSE IF ~isPop
       THEN /\ instance < MaxMounts
            /\ issued < MaxRequests
            /\ isPop' = TRUE
            /\ tipsMessage' = ""
            /\ position' = clampPosition(position.x, position.y, TRUE, isExpanded)
            /\ instance' = instance + 1
            /\ isLoading' = FALSE
            /\ messages' = <<createInitialMessage(uuids + 1)>>
            /\ uuids' = uuids + 1
            /\ userInput' = << >>
            /\ maxContentSize' = InitialMaxContentSize
            /\ requests' = requests \cup {NewRequest("init", instance + 1, 0)}
            /\ issued' = issued + 1
       ELSE /\ isPop' = FALSE
            /\ tipsMessage' = "Click me for a chat!"
            /\ isLoading' = FALSE
            /\ messages' = << >>
            /\ userInput' = << >>
            /\ maxContentSize' = InitialMaxContentSize
            /\ UNCHANGED <<position, instance, uuids, requests, issued>>
    /\ clicked' = Some([gesture |-> gesture, timers |-> timers,
                        isPop |-> isPop, tipsMessage |-> tipsMessage])
    /\ settled' = None
    /\ UNCHANGED <<isExpanded, isDragging, innerWidth, innerHeight,
                   isDivVisible, gesture, timers>>

\* handleUserInput: the input is disabled while loading and holds at most
\* maxLength = maxContentSize characters
HandleUserInput ==
    /\ isPop
    /\ ~isLoading
    /\ \E v \in UserTexts :
          /\ Len(v) <= maxContentSize
          /\ userInput' = v
    /\ settled' = None
    /\ UNCHANGED <<widgetVars, isLoading, messages, maxContentSize,
                   instance, requests, issued, uuids>>

sendMessage ==
    IF Trim(userInput) = << >>
    THEN UNCHANGED <<userInput, messages, uuids, isLoading, requests, issued>>
    ELSE /\ issued < MaxRequests
         /\ userInput' = << >>
         /\ messages' = Append(messages,
                               [id |-> uuids + 1, role |-> "user", content |-> userInput])
         /\ uuids' = uuids + 1
         /\ isLoading' = TRUE
         /\ requests' = requests \cup {NewRequest("send", instance, uuids + 1)}
         /\ issued' = issued + 1

\* keyDown on the input, which takes no key while it is disabled
KeyDown ==
    /\ isPop
    /\ ~isLoading
    /\ \E key \in {"Enter", "a"} :
          IF key = "Enter" /\ ~isLoading
          THEN sendMessage
          ELSE UNCHANGED <<userInput, messages, uuids, isLoading, requests, issued>>
    /\ settled' = None
    /\ UNCHANGED <<widgetVars, maxContentSize, instance>>

\* a click on Send, which takes no click while it is disabled
ClickSend ==
    /\ isPop
    /\ ~isLoading
    /\ sendMessage
    /\ settled' = None
    /\ UNCHANGED <<widgetVars, maxContentSize, instance>>

\* a click on Clean: resetChat
ClickClean ==
    /\ isPop
    /\ issued < MaxRequests
    /\ requests' = requests \cup {NewRequest("init", instance, 0)}
    /\ issued' = issued + 1
    /\ settled' = None
    /\ UNCHANGED <<widgetVars, panelVars, instance, uuids>>

Settle(r, outcome) ==
    /\ requests' = requests \ {r}
    /\ settled' = Some([request |-> r, outcome |-> outcome, live |-> Live(r),
                        before |-> messages])

\* initPixelChat resolves: the then callback of resetChat
InitResolved ==
    \E r \in requests, conv \in ServerConversations, size \in ServerMaxContentSizes :
        /\ r.kind = "init"
        /\ Settle(r, "resolved")
        /\ IF Live(r)
           THEN /\ IF Len(conv) > 0
                   THEN /\ messages' = WithIds(conv)
                        /\ uuids' = uuids + Cardinality({j \in 1 .. Len(conv) : conv[j].id = 0})
                   ELSE /\ messages' = <<createInitialMessage(uuids + 1)>>
                        /\ uuids' = uuids + 1
                /\ maxContentSize' = size
                /\ userInput' = << >>
           ELSE UNCHANGED <<messages, uuids, maxContentSize, userInput>>
        /\ UNCHANGED <<widgetVars, isLoading, instance, issued>>

\* initPixelChat rejects: resetChat has no catch
InitRejected ==
    \E r \in requests :
        /\ r.kind = "init"
        /\ Settle(r, "rejected")
        /\ UNCHANGED <<widgetVars, panelVars, instance, issued, uuids>>

\* continuePixelChat resolves: the then and finally callbacks of sendMessage
SendResolved ==
    \E r \in requests, response \in Responses :
        /\ r.kind = "send"
        /\ Settle(r, "resolved")
        /\ IF Live(r)
           THEN /\ messages' = Append(messages,
                                      [id |-> uuids + 1, role |-> "assistant",
                                       content |-> response])
                /\ uuids' = uuids + 1
                /\ isLoading' = FALSE
           ELSE UNCHANGED <<messages, uuids, isLoading>>
        /\ UNCHANGED <<widgetVars, userInput, maxContentSize, instance, issued>>

\* continuePixelChat rejects: the catch and finally callbacks of sendMessage
SendRejected ==
    \E r \in requests :
        /\ r.kind = "send"
        /\ Settle(r, "rejected")
        /\ IF Live(r)
           THEN /\ messages' = Append(messages, createErrorMessage(uuids + 1))
                /\ uuids' = uuids + 1
                /\ isLoading' = FALSE
           ELSE UNCHANGED <<messages, uuids, isLoading>>
        /\ UNCHANGED <<widgetVars, userInput, maxContentSize, instance, issued>>

-----------------------------------------------------------------------------
(* PixelChatbot: the handlers of the bubble *)

\* the sizes the window takes, and where a drag drops the bubble
Widths == {300, 1280}
Heights == {300, 900}
DragXs == {-2000, -100, 100}
DragYs == {-2000, -100, 100}

\* toggleExpanded, the button in the header of the open panel
ToggleExpanded ==
    /\ isPop
    /\ isExpanded' = ~isExpanded
    /\ position' = clampPosition(position.x, position.y, TRUE, ~isExpanded)
    /\ clicked' = None
    /\ UNCHANGED <<isPop, tipsMessage, isDragging, innerWidth, innerHeight,
                   isDivVisible, gesture, timers, panelVars, envVars>>

\* the window is resized and handleResize runs: clampPosition reads the new
\* size of the window
HandleResize ==
    /\ \E w \in Widths, h \in Heights :
          /\ <<w, h>> # <<innerWidth, innerHeight>>
          /\ innerWidth' = w
          /\ innerHeight' = h
    /\ \E x \in {position.x}, y \in {position.y}, chatOpen \in {isPop},
          expanded \in {isExpanded} :
          position' = clampPosition(x, y, chatOpen, expanded)'
    /\ clicked' = None
    /\ UNCHANGED <<isPop, tipsMessage, isExpanded, isDragging,
                   isDivVisible, gesture, timers, panelVars, envVars>>

\* handleDragStart: the mouse goes down on the bubble
HandleDragStart ==
    /\ gesture \notin {"started", "moved"}
    /\ isDragging' = FALSE
    /\ gesture' = "started"
    /\ clicked' = None
    /\ UNCHANGED <<isPop, tipsMessage, isExpanded, position, innerWidth, innerHeight,
                   isDivVisible, timers, panelVars, envVars>>

\* handleDrag: the mouse moves while it is down
HandleDrag ==
    /\ gesture \in {"started", "moved"}
    /\ isDragging' = TRUE
    /\ isDivVisible' = FALSE
    /\ gesture' = "moved"
    /\ clicked' = None
    /\ UNCHANGED <<isPop, tipsMessage, isExpanded, position, innerWidth, innerHeight,
                   timers, panelVars, envVars>>

\* handleDragStop: the mouse goes up; data is where the bubble was dropped,
\* which is where it was when the mouse did not move
HandleDragStop ==
    /\ gesture \in {"started", "moved"}
    /\ timers < MaxTimers
    /\ \E x \in DragXs \cup {position.x}, y \in DragYs \cup {position.y} :
          /\ gesture = "started" => x = position.x /\ y = position.y
          /\ position' = clampPosition(x, y, isPop, isExpanded)
    /\ timers' = timers + 1
    /\ gesture' = IF gesture = "moved" THEN "droppedMoved" ELSE "droppedStill"
    /\ clicked' = None
    /\ UNCHANGED <<isPop, tipsMessage, isExpanded, isDragging, innerWidth, innerHeight,
                   isDivVisible, panelVars, envVars>>

\* the callback of setTimeout(() => setIsDragging(false), 0) runs; the
\* callbacks run in the order they were scheduled
DragTimeout ==
    /\ timers > 0
    /\ timers' = timers - 1
    /\ isDragging' = FALSE
    /\ clicked' = None
    /\ UNCHANGED <<isPop, tipsMessage, isExpanded, position, innerWidth, innerHeight,
                   isDivVisible, gesture, panelVars, envVars>>

\* onMouseEnter of the bubble
MouseEnter ==
    /\ isDivVisible' = (IF ~isDragging THEN TRUE ELSE isDivVisible)
    /\ clicked' = None
    /\ UNCHANGED <<isPop, tipsMessage, isExpanded, position, isDragging,
                   innerWidth, innerHeight, gesture, timers, panelVars, envVars>>

\* onMouseLeave of the bubble
MouseLeave ==
    /\ isDivVisible' = FALSE
    /\ clicked' = None
    /\ UNCHANGED <<isPop, tipsMessage, isExpanded, position, isDragging,
                   innerWidth, innerHeight, gesture, timers, panelVars, envVars>>

-----------------------------------------------------------------------------
(* Properties of the chat panel *)

ErrorText == <<"Sorry, something went wrong. Please try again later.">>

\* C1 as stated: when a send request fails, in every interleaving with other
\* sends, settlements and resets, exactly one assistant message with the error
\* text is appended to the transcript, and the user message that triggered the
\* request is still in the transcript, before the error message.  (Stated for
\* the step that delivers the failure to the panel that sent the request.)
C1_Original ==
    (/\ settled # None
     /\ settled[1].request.kind = "send"
     /\ settled[1].outcome = "rejected"
     /\ settled[1].live) =>
        /\ Len(messages) = Len(settled[1].before) + 1
        /\ SubSeq(messages, 1, Len(messages) - 1) = settled[1].before
        /\ messages[Len(messages)].role = "assistant"
        /\ messages[Len(messages)].content = ErrorText
        /\ \E i \in 1 .. Len(messages) - 1 :
              /\ messages[i].id = settled[1].request.userMessageId
              /\ messages[i].role = "user"

\* C2 as stated: at most one send-message request is outstanding.
C2_Original == Cardinality({r \in requests : r.kind = "send"}) <= 1

\* C11 as stated: when the start/reset-conversation request fails
\* (initPixelChat rejects, after a mount or a Clean), one assistant message
\* with the error text is appended to the transcript.  (Stated for the step
\* that delivers the failure to the panel that made the request.)
C11_Original ==
    (/\ settled # None
     /\ settled[1].request.kind = "init"
     /\ settled[1].outcome = "rejected"
     /\ settled[1].live) =>
        /\ Len(messages) = Len(settled[1].before) + 1
        /\ SubSeq(messages, 1, Len(messages) - 1) = settled[1].before
        /\ messages[Len(messages)].role = "assistant"
        /\ messages[Len(messages)].content = ErrorText

\* C12 as stated, its invariant: while the panel is open, the loading flag is
\* true exactly when a send-message request is outstanding.
C12_Original ==
    isPop => (isLoading <=> \E r \in requests : r.kind = "send")

\* the loading flag is true exactly when a send-message request of the
\* mounted panel instance is outstanding
LoadingIffOwnSend ==
    isPop => (isLoading <=> \E r \in requests : r.kind = "send" /\ r.instance = instance)

-----------------------------------------------------------------------------
(* Specifications *)

NoMessage == [id |-> 0, role |-> "assistant", content |-> << >>]

\* MessageRenderer on every content of Contents
InitRender ==
    /\ message \in [id : {1}, role : {"assistant"}, content : Contents]
    /\ parts = << >>
    /\ rendered = FALSE
    /\ inputText = << >> /\ maxLen = 0 /\ called = "none" /\ output = << >>
    /\ pathname = << >> /\ store = EmptyStore /\ built = FALSE /\ page = << >>
    /\ isPop = FALSE /\ tipsMessage = "Click me for a chat!" /\ isExpanded = FALSE
    /\ position = [x |-> 0, y |-> 0] /\ isDragging = FALSE
    /\ innerWidth = 1280 /\ innerHeight = 720
    /\ isDivVisible = FALSE /\ gesture = "none" /\ timers = 0 /\ clicked = None
    /\ isLoading = FALSE /\ messages = << >> /\ userInput = << >>
    /\ maxContentSize = InitialMaxContentSize
    /\ instance = 0 /\ requests = {} /\ issued = 0 /\ uuids = 0 /\ settled = None

NextRender == Render /\ UNCHANGED <<textVars, contextVars, chatVars>>

SpecRender == InitRender /\ [][NextRender]_vars

\* truncate and stripHtml on every text of Texts
InitText ==
    /\ inputText \in Texts
    /\ maxLen = 0
    /\ called = "none"
    /\ output = << >>
    /\ message = NoMessage /\ parts = << >> /\ rendered = FALSE
    /\ pathname = << >> /\ store = EmptyStore /\ built = FALSE /\ page = << >>
    /\ isPop = FALSE /\ tipsMessage = "Click me for a chat!" /\ isExpanded = FALSE
    /\ position = [x |-> 0, y |-> 0] /\ isDragging = FALSE
    /\ innerWidth = 1280 /\ innerHeight = 720
    /\ isDivVisible = FALSE /\ gesture = "none" /\ timers = 0 /\ clicked = None
    /\ isLoading = FALSE /\ messages = << >> /\ userInput = << >>
    /\ maxContentSize = InitialMaxContentSize
    /\ instance = 0 /\ requests = {} /\ issued = 0 /\ uuids = 0 /\ settled = None

NextText ==
    \/ CallTruncate /\ UNCHANGED <<renderVars, contextVars, chatVars>>
    \/ CallStripHtml /\ UNCHANGED <<renderVars, contextVars, chatVars>>

SpecText == InitText /\ [][NextText]_vars

\* buildPageContext on every route and store of ContextInputs
InitContext ==
    /\ \E in \in ContextInputs : pathname = in[1] /\ store = in[2]
    /\ built = FALSE
    /\ page = << >>
    /\ message = NoMessage /\ parts = << >> /\ rendered = FALSE
    /\ inputText = << >> /\ maxLen = 0 /\ called = "none" /\ output = << >>
    /\ isPop = FALSE /\ tipsMessage = "Click me for a chat!" /\ isExpanded = FALSE
    /\ position = [x |-> 0, y |-> 0] /\ isDragging = FALSE
    /\ innerWidth = 1280 /\ innerHeight = 720
    /\ isDivVisible = FALSE /\ gesture = "none" /\ timers = 0 /\ clicked = None
    /\ isLoading = FALSE /\ messages = << >> /\ userInput = << >>
    /\ maxContentSize = InitialMaxContentSize
    /\ instance = 0 /\ requests = {} /\ issued = 0 /\ uuids = 0 /\ settled = None

NextContext == BuildPageContext /\ UNCHANGED <<renderVars, textVars, chatVars>>

SpecContext == InitContext /\ [][NextContext]_vars

\* the chat panel: the bubble is closed, the page is loaded and the user is
\* logged in; the user opens and closes the panel, types, sends and cleans,
\* and the requests settle in any order
InitChat ==
    /\ isPop = FALSE /\ tipsMessage = "Click me for a chat!" /\ isExpanded = FALSE
    /\ position = [x |-> 0, y |-> 0] /\ isDragging = FALSE
    /\ innerWidth = 1280 /\ innerHeight = 720
    /\ isDivVisible = FALSE /\ gesture = "none" /\ timers = 0 /\ clicked = None
    /\ isLoading = FALSE /\ messages = << >> /\ userInput = << >>
    /\ maxContentSize = InitialMaxContentSize
    /\ instance = 0 /\ requests = {} /\ issued = 0 /\ uuids = 0 /\ settled = None
    /\ message = NoMessage /\ parts = << >> /\ rendered = FALSE
    /\ inputText = << >> /\ maxLen = 0 /\ called = "none" /\ output = << >>
    /\ pathname = << >> /\ store = EmptyStore /\ built = FALSE /\ page = << >>

NextChat ==
    \/ TogglePop /\ UNCHANGED <<renderVars, textVars, contextVars>>
    \/ HandleUserInput /\ UNCHANGED <<renderVars, textVars, contextVars>>
    \/ KeyDown /\ UNCHANGED <<renderVars, textVars, contextVars>>
    \/ ClickSend /\ UNCHANGED <<renderVars, textVars, contextVars>>
    \/ ClickClean /\ UNCHANGED <<renderVars, textVars, contextVars>>
    \/ InitResolved /\ UNCHANGED <<renderVars, textVars, contextVars>>
    \/ InitRejected /\ UNCHANGED <<renderVars, textVars, contextVars>>
    \/ SendResolved /\ UNCHANGED <<renderVars, textVars, contextVars>>
    \/ SendRejected /\ UNCHANGED <<renderVars, textVars, contextVars>>

SpecChat == InitChat /\ [][NextChat]_vars

-----------------------------------------------------------------------------
(* Properties of the bubble *)

\* the size of the container in the current open/expanded state
ContainerWidth ==
    IF isPop THEN (IF isExpanded THEN CHAT_EXPANDED_WIDTH ELSE CHAT_WIDTH)
    ELSE ICON_SIZE
ContainerHeight ==
    IF isPop
    THEN (IF isExpanded
          THEN MinOf((innerHeight * CHAT_EXPANDED_HEIGHT_VH) \div 10, CHAT_EXPANDED_MAX_HEIGHT)
          ELSE CHAT_HEIGHT) + ICON_SIZE
    ELSE ICON_SIZE
Fits == ContainerWidth <= innerWidth /\ ContainerHeight <= innerHeight
DragInProgress == gesture \in {"started", "moved"}

\* C13: whenever no drag is in progress the stored position has x <= 0 and
\* y <= 0, and when the container of the current open/expanded state fits in
\* the window also x >= containerWidth - innerWidth and
\* y >= containerHeight - innerHeight.
C13_Clamped ==
    ~DragInProgress =>
        /\ position.x <= 0
        /\ position.y <= 0
        /\ Fits => /\ position.x >= ContainerWidth - innerWidth
                   /\ position.y >= ContainerHeight - innerHeight

\* a bubble dropped far to the upper left of the expanded open panel is
\* brought back to the corner of the window
C13_Witness ==
    /\ gesture = "droppedMoved"
    /\ isPop /\ isExpanded
    /\ innerWidth = 1280 /\ innerHeight = 900
    /\ position = [x |-> CHAT_EXPANDED_WIDTH - 1280, y |-> 790 - 900]

\* C14 as stated: a click delivered after a drag with at least one drag-move
\* event, before the deferred reset scheduled by its drag-stop has run, leaves
\* the open/closed state and the tip message unchanged; a click after a
\* drag-start with no drag-move event toggles the open/closed state.
C14_Original ==
    clicked # None =>
        /\ (clicked[1].gesture = "droppedMoved" /\ clicked[1].timers > 0) =>
               /\ isPop = clicked[1].isPop
               /\ tipsMessage = clicked[1].tipsMessage
        /\ clicked[1].gesture = "droppedStill" => isPop = ~clicked[1].isPop

\* the bubble: it is closed at the origin; the user clicks it, drags it,
\* expands and shrinks the panel, resizes the window and moves the mouse over
\* the bubble, and the deferred resets of isDragging run at any later time
InitWidget ==
    /\ isPop = FALSE /\ tipsMessage = "Click me for a chat!" /\ isExpanded = FALSE
    /\ position = [x |-> 0, y |-> 0] /\ isDragging = FALSE
    /\ innerWidth = 1280 /\ innerHeight = 720
    /\ isDivVisible = FALSE /\ gesture = "none" /\ timers = 0 /\ clicked = None
    /\ isLoading = FALSE /\ messages = << >> /\ userInput = << >>
    /\ maxContentSize = InitialMaxContentSize
    /\ instance = 0 /\ requests = {} /\ issued = 0 /\ uuids = 0 /\ settled = None
    /\ message = NoMessage /\ parts = << >> /\ rendered = FALSE
    /\ inputText = << >> /\ maxLen = 0 /\ called = "none" /\ output = << >>
    /\ pathname = << >> /\ store = EmptyStore /\ built = FALSE /\ page = << >>

NextWidget ==
    \/ TogglePop /\ UNCHANGED <<renderVars, textVars, contextVars>>
    \/ ToggleExpanded /\ UNCHANGED <<renderVars, textVars, contextVars>>
    \/ HandleResize /\ UNCHANGED <<renderVars, textVars, contextVars>>
    \/ HandleDragStart /\ UNCHANGED <<renderVars, textVars, contextVars>>
    \/ HandleDrag /\ UNCHANGED <<renderVars, textVars, contextVars>>
    \/ HandleDragStop /\ UNCHANGED <<renderVars, textVars, contextVars>>
    \/ DragTimeout /\ UNCHANGED <<renderVars, textVars, contextVars>>
    \/ MouseEnter /\ UNCHANGED <<renderVars, textVars, contextVars>>
    \/ MouseLeave /\ UNCHANGED <<renderVars, textVars, contextVars>>

SpecWidget == InitWidget /\ [][NextWidget]_vars

=============================================================================
